---------------------------- MODULE Spec2Model ----------------------------
(***************************************************************************)
(* Model of the blog application in src/main.py: the users, blog_posts and *)
(* comments tables, the per-client login session, and one action per       *)
(* route handler.  Every action is one HTTP request: routing on the        *)
(* method, the decorators, the handler body and the commit.                *)
(***************************************************************************)
EXTENDS Integers, FiniteSets, Sequences, TLC

VARIABLES users, posts, comments, session, last, result, inflight, writer

vars == <<users, posts, comments, session, last, result, inflight, writer>>

(***************************************************************************)
(* Bounds and input domains.                                               *)
(***************************************************************************)
MaxPostId == 2
MaxComments == 1

Clients == {"c1"}
\* Requests of the worker pool that are served at the same time.
Reqs == {"r1", "r2"}
Emails == {"a@x.com", "b@x.com"}
\* Passwords chosen at registration, and passwords tried at login.
Passwords == {"pw1"}
LoginPasswords == Passwords \cup {"pw2"}
Names == {"n"}
Salts == {"salt"}
Titles == {"", "t1", "t2"}
Subtitles == {"s1", "s2"}
Bodies == {"b"}
ImgUrls == {"i"}
Texts == {"c"}
Dates == {"d"}
PostIds == 1..MaxPostId

\* Python's None / SQL NULL for an integer column or a session without user_id.
None == 0

(***************************************************************************)
(* Responses.                                                              *)
(***************************************************************************)
Response(status, body, flashed) ==
    [status |-> status, body |-> body, flash |-> flashed, comments |-> {}]

redirect(endpoint) == Response(302, endpoint, "")

render_template(template) == Response(200, template, "")

abort(code) == Response(code, "", "")

\* An exception no handler catches: Flask answers 500.
Unhandled(exception) == Response(500, exception, "")

flash(resp, message) == [resp EXCEPT !.flash = message]

\* render_template(..., comments=all_comments): the comments handed to the page.
with_comments(resp, all_comments) == [resp EXCEPT !.comments = all_comments]

(***************************************************************************)
(* Requests.  `last` names the request just served: the endpoint, the      *)
(* client, the HTTP method and the <int:post_id> of the URL (None when the *)
(* route has none).  The submitted form fields are inputs of the actions.  *)
(***************************************************************************)
Request(op, c, method, post_id) ==
    [op |-> op, client |-> c, method |-> method, post_id |-> post_id]

RegisterForms == [email : Emails, password : Passwords, name : Names]

LoginForms == [email : Emails, password : LoginPasswords]

PostForms == [title : Titles, subtitle : Subtitles, body : Bodies, img_url : ImgUrls]

CommentForms == [comment : Texts]

\* A field the form requires: the empty string is rejected.
DataRequired(value) == value # ""

\* The forms every validator accepts.
Validated(forms) == {f \in forms : \A field \in DOMAIN f : DataRequired(f[field])}

\* Flask-WTF: the request is a submission (POST, PUT, PATCH, DELETE) and the
\* validators of the form accept it.
validate_on_submit(method, valid) == method = "POST" /\ valid

\* The methods of each @app.route; any other method is answered 405 before the
\* view function (and its decorators) run.
RouteMethods(op) ==
    IF op \in {"register", "login", "show_post", "add_new_post"}
    THEN {"GET", "POST"}
    ELSE {"GET"}

(***************************************************************************)
(* Tables.                                                                 *)
(***************************************************************************)
Max(S) == CHOOSE x \in S : \A y \in S : y <= x

Ids(table) == {r.id : r \in table}

\* Mutant: an id that does not advance with the table.
NextId_fixed(table) == 1

\* An INTEGER PRIMARY KEY of SQLite: one more than the largest id in the table.
NextId(table) == IF table = {} THEN 1 ELSE Max(Ids(table)) + 1

\* Mutant: the email column without its unique constraint.
EmailTaken_unchecked(email) == FALSE

\* users.email is unique=True.
EmailTaken(email) == \E u \in users : u.email = email

\* Mutant: the title column without its unique constraint.
TitleTaken_unchecked(title) == FALSE

\* blog_posts.title is unique=True.
TitleTaken(title) == \E p \in posts : p.title = title

\* Mutant: only the comments of the requested post are queried.
QueryAllComments_ofPost == {cm \in comments : cm.post_id = last'.post_id}

\* Comments.query.all(), run before the submitted comment is added.
QueryAllComments == comments

\* BlogPost.query.get(post_id): the row, or None.
NoPost ==
    [id |-> None, author_id |-> None, title |-> "", subtitle |-> "", date |-> "",
     body |-> "", img_url |-> ""]

GetPost(post_id) ==
    IF \E p \in posts : p.id = post_id
    THEN CHOOSE p \in posts : p.id = post_id
    ELSE NoPost

(***************************************************************************)
(* Credentials.                                                            *)
(***************************************************************************)
Digest(salt, password) == <<salt, password>>

generate_password_hash(password, salt) ==
    [method |-> "pbkdf2:sha256", salt |-> salt, hash |-> Digest(salt, password)]

\* Mutant: a check that accepts every password.
check_password_hash_any(pwhash, password) == TRUE

check_password_hash(pwhash, password) ==
    pwhash.hash = Digest(pwhash.salt, password)

(***************************************************************************)
(* Flask-Login.                                                            *)
(***************************************************************************)
\* A query that finds no user row yields None.
NoUser ==
    [id |-> None, email |-> "", name |-> "",
     password |-> [method |-> "", salt |-> "", hash |-> <<>>]]

\* Flask-Login's current_user when no user is loaded.
AnonymousUser == NoUser

\* User.query.get(int(user_id))
load_user(user_id) ==
    IF \E u \in users : u.id = user_id
    THEN CHOOSE u \in users : u.id = user_id
    ELSE NoUser

\* User.query.filter_by(email=email).first()
FindByEmail(email) ==
    IF \E u \in users : u.email = email
    THEN CHOOSE u \in users : u.email = email
    ELSE NoUser

current_user(c) ==
    IF session[c] = None \/ load_user(session[c]) = NoUser
    THEN AnonymousUser
    ELSE load_user(session[c])

is_authenticated(user) == user # AnonymousUser

\* Mutant: the call of login_user left out.
login_user_skipped(c, user) == session

login_user(c, user) == [session EXCEPT ![c] = user.id]

\* Mutant: a logout that leaves user_id in the session.
logout_user_keeps(c) == session

logout_user(c) == [session EXCEPT ![c] = None]

\* @login_required with no login_view configured: 401 for an anonymous client.
login_required(c) == is_authenticated(current_user(c))

\* Mutant: the decorator lets every logged-in user through.
admin_only_absent(user) == TRUE

\* Mutant: the decorator's comparison inverted.
admin_only_inverted(user) == user.id # 1

\* @admin_only: abort(403) unless current_user.id is 1.
admin_only(user) == user.id = 1

(***************************************************************************)
(* Requests in flight.  A request that writes runs db.session.add and then *)
(* db.session.commit, which flushes the INSERT and then commits it; other  *)
(* requests run between the two.  pc is where the request stands, pending  *)
(* the row it has inserted and not yet committed, overlapped whether it    *)
(* began while another request was in flight.                              *)
(***************************************************************************)
Idle ==
    [pc |-> "idle", op |-> "none", client |-> "c1", key |-> "", pending |-> {},
     overlapped |-> FALSE, outcome |-> render_template("")]

(***************************************************************************)
(* Initial state: db.create_all() on an empty database, no one logged in.  *)
(***************************************************************************)
Init ==
    /\ users = {}
    /\ posts = {}
    /\ comments = {}
    /\ session = [c \in Clients |-> None]
    /\ last = Request("none", "c1", "GET", None)
    /\ result = render_template("")
    /\ inflight = [r \in Reqs |-> Idle]
    /\ writer = "none"

(***************************************************************************)
(* Route handlers.                                                         *)
(***************************************************************************)
\* One request: the URL map picks the view by endpoint and method.  A method
\* the route does not list is answered 405 before the view (and its decorators)
\* runs; otherwise the view decides the response and the new state.
Served(op, c, method, post_id, view) ==
    /\ last' = Request(op, c, method, post_id)
    /\ UNCHANGED <<inflight, writer>>
    /\ IF method \in RouteMethods(op)
       THEN view
       ELSE /\ result' = abort(405)
            /\ UNCHANGED <<users, posts, comments, session>>

get_all_posts(c, method) ==
    Served("get_all_posts", c, method, None,
      /\ result' = render_template("index.html")
      /\ UNCHANGED <<users, posts, comments, session>>)

register(c, method, valid, form, salt) ==
    LET new_user == [id |-> NextId(users),
                     email |-> form.email,
                     password |-> generate_password_hash(form.password, salt),
                     name |-> form.name]
    IN
    Served("register", c, method, None,
      IF validate_on_submit(method, valid)
      THEN IF EmailTaken(new_user.email)
           THEN /\ result' = Unhandled("IntegrityError")
                /\ UNCHANGED <<users, posts, comments, session>>
           ELSE /\ users' = users \cup {new_user}
                /\ session' = login_user(c, new_user)
                /\ result' = redirect("get_all_posts")
                /\ UNCHANGED <<posts, comments>>
      ELSE /\ result' = render_template("register.html")
           /\ UNCHANGED <<users, posts, comments, session>>)

login(c, method, valid, form) ==
    LET user == FindByEmail(form.email) IN
    Served("login", c, method, None,
      IF validate_on_submit(method, valid)
      THEN IF user = NoUser
           THEN \* user.password on None
                /\ result' = Unhandled("AttributeError")
                /\ UNCHANGED <<users, posts, comments, session>>
           ELSE IF check_password_hash(user.password, form.password)
           THEN /\ session' = login_user(c, user)
                /\ result' = redirect("get_all_posts")
                /\ UNCHANGED <<users, posts, comments>>
           ELSE /\ result' = flash(redirect("login"), "Try again please")
                /\ UNCHANGED <<users, posts, comments, session>>
      ELSE /\ result' = render_template("login.html")
           /\ UNCHANGED <<users, posts, comments, session>>)

logout(c, method) ==
    Served("logout", c, method, None,
      /\ session' = logout_user(c)
      /\ result' = redirect("get_all_posts")
      /\ UNCHANGED <<users, posts, comments>>)

show_post(c, method, post_id, valid, form) ==
    LET requested_post == GetPost(post_id)
        all_comments == QueryAllComments
        page == with_comments(render_template("post.html"), all_comments)
        new_comment == [id |-> NextId(comments),
                        author_id |-> current_user(c).id,
                        post_id |-> requested_post.id,
                        text |-> form.comment]
    IN
    Served("show_post", c, method, post_id,
      IF validate_on_submit(method, valid)
      THEN IF ~is_authenticated(current_user(c))
           THEN \* comment_author=current_user: the anonymous user is no mapped row
                /\ result' = Unhandled("AttributeError")
                /\ UNCHANGED <<users, posts, comments, session>>
           ELSE /\ Cardinality(comments) < MaxComments
                /\ comments' = comments \cup {new_comment}
                /\ result' = page
                /\ UNCHANGED <<users, posts, session>>
      ELSE /\ result' = page
           /\ UNCHANGED <<users, posts, comments, session>>)

add_new_post(c, method, valid, form, today) ==
    LET new_post == [id |-> NextId(posts),
                     author_id |-> current_user(c).id,
                     title |-> form.title,
                     subtitle |-> form.subtitle,
                     date |-> today,
                     body |-> form.body,
                     img_url |-> form.img_url]
    IN
    Served("add_new_post", c, method, None,
      IF ~login_required(c)
      THEN /\ result' = abort(401)
           /\ UNCHANGED <<users, posts, comments, session>>
      ELSE IF ~admin_only(current_user(c))
      THEN /\ result' = abort(403)
           /\ UNCHANGED <<users, posts, comments, session>>
      ELSE IF validate_on_submit(method, valid)
      THEN IF TitleTaken(new_post.title)
           THEN /\ result' = Unhandled("IntegrityError")
                /\ UNCHANGED <<users, posts, comments, session>>
           ELSE /\ new_post.id <= MaxPostId
                /\ posts' = posts \cup {new_post}
                /\ result' = redirect("get_all_posts")
                /\ UNCHANGED <<users, comments, session>>
      ELSE /\ result' = render_template("make-post.html")
           /\ UNCHANGED <<users, posts, comments, session>>)

edit_post(c, method, post_id, valid, form) ==
    LET post == GetPost(post_id)
        edited == [post EXCEPT !.title = form.title,
                               !.subtitle = form.subtitle,
                               !.img_url = form.img_url,
                               !.body = form.body]
    IN
    Served("edit_post", c, method, post_id,
      IF ~login_required(c)
      THEN /\ result' = abort(401)
           /\ UNCHANGED <<users, posts, comments, session>>
      ELSE IF ~admin_only(current_user(c))
      THEN /\ result' = abort(403)
           /\ UNCHANGED <<users, posts, comments, session>>
      ELSE IF post = NoPost
      THEN \* post.title on None
           /\ result' = Unhandled("AttributeError")
           /\ UNCHANGED <<users, posts, comments, session>>
      ELSE IF validate_on_submit(method, valid)
      THEN IF \E other \in posts \ {post} : other.title = edited.title
           THEN \* the unique title column rejects the UPDATE
                /\ result' = Unhandled("IntegrityError")
                /\ UNCHANGED <<users, posts, comments, session>>
           ELSE /\ posts' = (posts \ {post}) \cup {edited}
                /\ result' = redirect("show_post")
                /\ UNCHANGED <<users, comments, session>>
      ELSE /\ result' = render_template("make-post.html")
           /\ UNCHANGED <<users, posts, comments, session>>)

\* db.session.delete(post): the post's comments stay, their post_id set to NULL
\* (the comments relationship has no delete cascade).
Orphaned(post) ==
    {IF cm.post_id = post.id THEN [cm EXCEPT !.post_id = None] ELSE cm : cm \in comments}

delete_post(c, method, post_id) ==
    LET post_to_delete == GetPost(post_id) IN
    Served("delete_post", c, method, post_id,
      IF ~login_required(c)
      THEN /\ result' = abort(401)
           /\ UNCHANGED <<users, posts, comments, session>>
      ELSE IF ~admin_only(current_user(c))
      THEN /\ result' = abort(403)
           /\ UNCHANGED <<users, posts, comments, session>>
      ELSE IF post_to_delete = NoPost
      THEN \* db.session.delete(None)
           /\ result' = Unhandled("UnmappedInstanceError")
           /\ UNCHANGED <<users, posts, comments, session>>
      ELSE /\ posts' = posts \ {post_to_delete}
           /\ comments' = Orphaned(post_to_delete)
           /\ result' = redirect("get_all_posts")
           /\ UNCHANGED <<users, session>>)

(***************************************************************************)
(* Specification: clients send requests in any order.                      *)
(***************************************************************************)
\* What a client can send to a form route: a GET, which carries no form, a POST
\* the validators reject (no view reads a field of it), or a POST of any form
\* the validators accept.
Submissions(forms) ==
    LET unread == CHOOSE g \in forms : TRUE IN
    {[method |-> "GET", valid |-> FALSE, form |-> unread],
     [method |-> "POST", valid |-> FALSE, form |-> unread]}
      \cup [method : {"POST"}, valid : {TRUE}, form : Validated(forms)]

Next ==
    \/ \E c \in Clients : get_all_posts(c, "GET")
    \/ \E c \in Clients, r \in Submissions(RegisterForms), s \in Salts :
          register(c, r.method, r.valid, r.form, s)
    \/ \E c \in Clients, r \in Submissions(LoginForms) :
          login(c, r.method, r.valid, r.form)
    \/ \E c \in Clients : logout(c, "GET")
    \/ \E c \in Clients, id \in PostIds, r \in Submissions(CommentForms) :
          show_post(c, r.method, id, r.valid, r.form)
    \/ \E c \in Clients, r \in Submissions(PostForms), d \in Dates :
          add_new_post(c, r.method, r.valid, r.form, d)
    \/ \E c \in Clients, id \in PostIds, r \in Submissions(PostForms) :
          edit_post(c, r.method, id, r.valid, r.form)
    \/ \E c \in Clients, id \in PostIds : delete_post(c, "GET", id)

Spec == Init /\ [][Next]_vars

(***************************************************************************)
(* Concurrent requests: register and add_new_post submissions served at    *)
(* the same time, each split where another request can run in between:     *)
(* the view up to db.session.add, the INSERT flushed by db.session.commit, *)
(* the COMMIT with the rest of the view, and the delivery of the response. *)
(***************************************************************************)
Began(r, pc, op, c, key, rows, outcome) ==
    [pc |-> pc, op |-> op, client |-> c, key |-> key, pending |-> rows,
     overlapped |-> \E o \in Reqs \ {r} : inflight[o].pc \in {"flush", "commit"},
     outcome |-> outcome]

\* The response of request r is decided.
Answered(r, outcome) ==
    /\ inflight' = [inflight EXCEPT ![r].pc = "done",
                                    ![r].pending = {},
                                    ![r].outcome = outcome]
    /\ last' = Request(inflight[r].op, inflight[r].client, "POST", None)
    /\ result' = outcome

\* Mutant: a store whose writers do not exclude one another.
WriteLockFree_absent(r) == TRUE

\* SQLite lets one connection write at a time: the INSERT takes the write lock,
\* which the COMMIT or the rollback releases.
WriteLockFree(r) == writer \in {"none", r}

\* register, lines 95-102: an accepted form, new_user built and added to the session.
BeginRegister(r, c, form, salt) ==
    LET new_user == [id |-> None,
                     email |-> form.email,
                     password |-> generate_password_hash(form.password, salt),
                     name |-> form.name]
    IN
    /\ inflight[r].pc = "idle"
    /\ inflight' = [inflight EXCEPT ![r] =
                      Began(r, "flush", "register", c, form.email, {new_user},
                            render_template(""))]
    /\ UNCHANGED <<users, posts, comments, session, last, result, writer>>

\* add_new_post, lines 158-171: the decorators, then an accepted form, new_post
\* built and added to the session.
BeginAddNewPost(r, c, form, today) ==
    LET new_post == [id |-> None,
                     author_id |-> current_user(c).id,
                     title |-> form.title,
                     subtitle |-> form.subtitle,
                     date |-> today,
                     body |-> form.body,
                     img_url |-> form.img_url]
        refused == IF ~login_required(c) THEN abort(401) ELSE abort(403)
    IN
    /\ inflight[r].pc = "idle"
    /\ IF login_required(c) /\ admin_only(current_user(c))
       THEN /\ inflight' = [inflight EXCEPT ![r] =
                              Began(r, "flush", "add_new_post", c, form.title,
                                    {new_post}, render_template(""))]
            /\ UNCHANGED <<last, result>>
       ELSE /\ inflight' = [inflight EXCEPT ![r] =
                              Began(r, "done", "add_new_post", c, form.title, {}, refused)]
            /\ last' = Request("add_new_post", c, "POST", None)
            /\ result' = refused
    /\ UNCHANGED <<users, posts, comments, session, writer>>

\* db.session.commit(), first half: the INSERT.  The unique column rejects a
\* taken value (IntegrityError, rolled back); otherwise the row gets its id and
\* stays uncommitted under the write lock.
Flush(r) ==
    LET req == inflight[r]
        row == CHOOSE x \in req.pending : TRUE
        table == IF req.op = "register" THEN users ELSE posts
        taken == IF req.op = "register" THEN EmailTaken(req.key) ELSE TitleTaken(req.key)
    IN
    /\ req.pc = "flush"
    /\ WriteLockFree(r)
    /\ IF taken
       THEN /\ Answered(r, Unhandled("IntegrityError"))
            /\ UNCHANGED writer
       ELSE /\ req.op = "add_new_post" => NextId(table) <= MaxPostId
            /\ inflight' = [inflight EXCEPT ![r].pc = "commit",
                                            ![r].pending = {[row EXCEPT !.id = NextId(table)]}]
            /\ writer' = r
            /\ UNCHANGED <<last, result>>
    /\ UNCHANGED <<users, posts, comments, session>>

\* The INSERT of a request that finds the database locked by another writer until
\* its busy timeout runs out.
Locked(r) ==
    /\ inflight[r].pc = "flush"
    /\ ~WriteLockFree(r)
    /\ Answered(r, Unhandled("OperationalError"))
    /\ UNCHANGED <<users, posts, comments, session, writer>>

\* db.session.commit(), second half, and the rest of the view: the row is
\* committed, register logs the new user in, the client is redirected.
Commit(r) ==
    LET req == inflight[r]
        row == CHOOSE x \in req.pending : TRUE
    IN
    /\ req.pc = "commit"
    /\ IF req.op = "register"
       THEN /\ users' = users \cup req.pending
            /\ session' = login_user(req.client, row)
            /\ UNCHANGED posts
       ELSE /\ posts' = posts \cup req.pending
            /\ UNCHANGED <<users, session>>
    /\ writer' = "none"
    /\ Answered(r, redirect("get_all_posts"))
    /\ UNCHANGED comments

\* The response is sent; the worker takes the next request.
Deliver(r) ==
    /\ inflight[r].pc = "done"
    /\ inflight' = [inflight EXCEPT ![r] = Idle]
    /\ UNCHANGED <<users, posts, comments, session, last, result, writer>>

NextC ==
    \/ \E r \in Reqs, c \in Clients, f \in Validated(RegisterForms), s \in Salts :
          BeginRegister(r, c, f, s)
    \/ \E r \in Reqs, c \in Clients, f \in Validated(PostForms), d \in Dates :
          BeginAddNewPost(r, c, f, d)
    \/ \E r \in Reqs : Flush(r)
    \/ \E r \in Reqs : Locked(r)
    \/ \E r \in Reqs : Commit(r)
    \/ \E r \in Reqs : Deliver(r)

SpecC == Init /\ [][NextC]_vars

(***************************************************************************)
(* The outcomes the specification names, as the responses that stand for   *)
(* them in this code.                                                      *)
(***************************************************************************)
UnauthenticatedError == abort(401)

ForbiddenError == abort(403)

DuplicateEmailError == Unhandled("IntegrityError")

DuplicateTitleError == Unhandled("IntegrityError")

InvalidCredentialsError == flash(redirect("login"), "Try again please")

NotFoundError == abort(404)

\* The response of a register, login or create-post request that succeeded.
Succeeded == redirect("get_all_posts")

\* The first user ever registered holds the lowest id.
IsAdministrator(user) ==
    user \in users /\ \A u \in users : user.id <= u.id

Anonymous(c) == current_user(c) = AnonymousUser

Mutating == {"add_new_post", "edit_post", "delete_post"}

\* The step formulas below read last and result only primed, and get_all_posts
\* can be served in every state and changes nothing else: every request is
\* therefore also checked as a step that changes the state.

(***************************************************************************)
(* C1: whenever the view add_new_post, edit_post or delete_post is called  *)
(* it answers 401 to an anonymous session and 403 to a session of a user   *)
(* who is not the administrator, and leaves the posts as they were; every  *)
(* step that changes the posts is one of these requests, sent by a session *)
(* logged in as the administrator.                                         *)
(***************************************************************************)
C1_Step ==
    LET c == last'.client
        viewCalled == last'.op \in Mutating /\ last'.method \in RouteMethods(last'.op)
    IN
    /\ (viewCalled /\ Anonymous(c))
         => (result' = UnauthenticatedError /\ posts' = posts)
    /\ (viewCalled /\ ~Anonymous(c) /\ ~IsAdministrator(current_user(c)))
         => (result' = ForbiddenError /\ posts' = posts)
    /\ posts' # posts
         => (last'.op \in Mutating /\ IsAdministrator(current_user(c)))

C1_AdminGate == [][C1_Step]_vars

C1_Witness ==
    /\ last.op = "delete_post"
    /\ result = ForbiddenError
    /\ ~Anonymous(last.client)
    /\ last.post_id \in Ids(posts)

(***************************************************************************)
(* C2: the users who pass the administrator check are exactly the user of  *)
(* lowest id; users are only added, each with an id above all earlier ids, *)
(* so that user is the first one registered and stays the administrator.   *)
(***************************************************************************)
C2_OnlyFirst == \A u \in users : admin_only(u) <=> IsAdministrator(u)

C2_Step ==
    /\ users \subseteq users'
    /\ \A new \in users' \ users : \A u \in users : u.id < new.id

C2_FirstUserIsAdmin == []C2_OnlyFirst /\ [][C2_Step]_vars

C2_Witness ==
    /\ Cardinality(users) = 2
    /\ last.op = "register"
    /\ result = DuplicateEmailError
    /\ \E u \in users : admin_only(u) /\ u.email = "b@x.com"

(***************************************************************************)
(* C3: a submitted login whose email matches no user, or whose password    *)
(* does not match, ends in the one outcome InvalidCredentialsError and     *)
(* leaves the session as it was.                                           *)
(***************************************************************************)
C3_Step ==
    \A c \in Clients, f \in LoginForms :
      LET known == \E u \in users : u.email = f.email
          matches == \E u \in users :
                       u.email = f.email /\ check_password_hash(u.password, f.password)
      IN (last'.op = "login" /\ login(c, "POST", TRUE, f) /\ (~known \/ ~matches))
           => (result' = InvalidCredentialsError /\ session' = session)

C3_LoginUniformFailure == [][C3_Step]_vars

(***************************************************************************)
(* C4: after a login that succeeded the session's current user is the user *)
(* registered with the submitted email; logout always succeeds and leaves  *)
(* the session anonymous; an anonymous session stays anonymous until a     *)
(* login or registration succeeds on it.                                   *)
(***************************************************************************)
C4_Step ==
    /\ \A c \in Clients, f \in LoginForms :
         (last'.op = "login" /\ result' = Succeeded /\ login(c, "POST", TRUE, f))
           => (current_user(c)' \in users' /\ current_user(c)'.email = f.email)
    /\ \A c \in Clients :
         (last'.op = "logout" /\ logout(c, "GET"))
           => (result' = Succeeded /\ Anonymous(c)')
    /\ \A c \in Clients :
         (Anonymous(c) /\ ~Anonymous(c)')
           => (last'.client = c /\ last'.op \in {"login", "register"}
                 /\ result' = Succeeded)

C4_LoginLogout == [][C4_Step]_vars

C4_Witness ==
    /\ last.op = "login"
    /\ result = Succeeded
    /\ Cardinality(users) = 2
    /\ current_user(last.client).id = 1

(***************************************************************************)
(* C5: a submitted registration with an email no user has adds exactly one *)
(* user, with that email and an id no earlier user has; with an email some *)
(* user has it fails with DuplicateEmailError and the users are unchanged. *)
(***************************************************************************)
C5_Step ==
    \A c \in Clients, f \in RegisterForms, s \in Salts :
      (last'.op = "register" /\ register(c, "POST", TRUE, f, s))
        => IF \E u \in users : u.email = f.email
           THEN result' = DuplicateEmailError /\ users' = users
           ELSE /\ result' = Succeeded
                /\ \E new \in users' :
                     /\ new.email = f.email
                     /\ new.id \notin Ids(users)
                     /\ new \notin users
                     /\ users' = users \cup {new}

C5_Register == [][C5_Step]_vars

C5_Witness ==
    /\ last.op = "register"
    /\ result = DuplicateEmailError
    /\ Cardinality(users) = 2

(***************************************************************************)
(* C6: a post submitted by the administrator under the title of an         *)
(* existing post fails with DuplicateTitleError, and every post, the one   *)
(* with that title included, is as it was.                                 *)
(***************************************************************************)
C6_Step ==
    \A c \in Clients, f \in PostForms, d \in Dates :
      (/\ last'.op = "add_new_post"
       /\ IsAdministrator(current_user(c))
       /\ \E p \in posts : p.title = f.title
       /\ add_new_post(c, "POST", TRUE, f, d))
        => /\ result' = DuplicateTitleError
           /\ Cardinality(posts') = Cardinality(posts)
           /\ \A p \in posts : p.title = f.title => p \in posts'
           /\ posts' = posts

C6_DuplicateTitle == [][C6_Step]_vars

C6_Witness ==
    /\ last.op = "add_new_post"
    /\ result = DuplicateTitleError
    /\ Cardinality(posts) = 2

(***************************************************************************)
(* C7: a comment submitted on an existing post from an anonymous session   *)
(* fails with UnauthenticatedError and adds no comment; from a session of  *)
(* any logged-in user it adds exactly one comment, by that user on that    *)
(* post.                                                                   *)
(***************************************************************************)
C7_Step ==
    \A c \in Clients, id \in PostIds, f \in CommentForms :
      (last'.op = "show_post" /\ id \in Ids(posts) /\ show_post(c, "POST", id, TRUE, f))
        => IF Anonymous(c)
           THEN result' = UnauthenticatedError /\ comments' = comments
           ELSE \E new \in comments' :
                  /\ new \notin comments
                  /\ comments' = comments \cup {new}
                  /\ new.author_id = current_user(c).id
                  /\ new.post_id = id

C7_AddComment == [][C7_Step]_vars

(***************************************************************************)
(* C8: a comment submitted by a logged-in user on a post id that no post   *)
(* has fails with NotFoundError and leaves the comments as they were.      *)
(***************************************************************************)
C8_Step ==
    \A c \in Clients, id \in PostIds, f \in CommentForms :
      (/\ last'.op = "show_post"
       /\ ~Anonymous(c)
       /\ id \notin Ids(posts)
       /\ show_post(c, "POST", id, TRUE, f))
        => (result' = NotFoundError /\ comments' = comments)

C8_CommentOnMissingPost == [][C8_Step]_vars

(***************************************************************************)
(* C9: every stored comment's author is an existing user and its target is *)
(* an existing post.                                                       *)
(***************************************************************************)
C9_ReferentialIntegrity ==
    \A cm \in comments :
      cm.author_id \in Ids(users) /\ cm.post_id \in Ids(posts)

(***************************************************************************)
(* C10: after the administrator submits an edit of an existing post, the   *)
(* stored post has the submitted title, subtitle, body and image, and the  *)
(* id and date it had before.                                              *)
(***************************************************************************)
C10_Step ==
    \A c \in Clients, id \in PostIds, f \in PostForms :
      (/\ last'.op = "edit_post"
       /\ IsAdministrator(current_user(c))
       /\ id \in Ids(posts)
       /\ edit_post(c, "POST", id, TRUE, f))
        => \E p \in posts' :
             /\ p.id = id
             /\ p.title = f.title
             /\ p.subtitle = f.subtitle
             /\ p.body = f.body
             /\ p.img_url = f.img_url
             /\ p.date = GetPost(id).date
             /\ GetPost(id)' = p

C10_EditPost == [][C10_Step]_vars

(***************************************************************************)
(* C11: of two register requests with the same email served at the same    *)
(* time at most one succeeds, and no two users ever have the same email;   *)
(* of two add_new_post requests of the administrator with the same title   *)
(* at most one succeeds, and no two posts ever have the same title.        *)
(***************************************************************************)
C11_AtMostOne ==
    /\ \A u1, u2 \in users : u1.email = u2.email => u1 = u2
    /\ \A p1, p2 \in posts : p1.title = p2.title => p1 = p2
    /\ \A r1, r2 \in Reqs :
         (/\ r1 # r2
          /\ inflight[r1].pc = "done" /\ inflight[r2].pc = "done"
          /\ inflight[r1].op = inflight[r2].op
          /\ inflight[r1].key = inflight[r2].key)
           => ~(inflight[r1].outcome = Succeeded /\ inflight[r2].outcome = Succeeded)

C11_Witness ==
    /\ inflight["r1"].pc = "done" /\ inflight["r2"].pc = "done"
    /\ inflight["r2"].overlapped
    /\ inflight["r1"].op = "add_new_post" /\ inflight["r2"].op = "add_new_post"
    /\ inflight["r1"].key = inflight["r2"].key
    /\ inflight["r1"].outcome = Succeeded
    /\ inflight["r2"].outcome = DuplicateTitleError
    /\ Cardinality(posts) = 1

(***************************************************************************)
(* C12: for the administrator, viewing, editing or deleting a post id that *)
(* no post has ends in NotFoundError and leaves posts, comments and users  *)
(* as they were; deleting an existing post removes exactly that post.      *)
(***************************************************************************)
C12_Step ==
    \A c \in Clients, id \in PostIds, f \in PostForms, g \in CommentForms :
      /\ (/\ last'.op \in {"show_post", "edit_post", "delete_post"}
          /\ IsAdministrator(current_user(c))
          /\ id \notin Ids(posts)
          /\ \/ show_post(c, "GET", id, FALSE, g)
             \/ edit_post(c, "GET", id, FALSE, f)
             \/ delete_post(c, "GET", id))
           => /\ result' = NotFoundError
              /\ UNCHANGED <<posts, comments, users>>
      /\ (/\ last'.op = "delete_post"
          /\ IsAdministrator(current_user(c))
          /\ id \in Ids(posts)
          /\ delete_post(c, "GET", id))
           => posts' = posts \ {GetPost(id)}

C12_MissingPost == [][C12_Step]_vars

C14_Step ==
    \A cm \in comments :
      \E kept \in comments' :
        /\ kept.id = cm.id
        /\ kept.author_id = cm.author_id
        /\ kept.post_id = cm.post_id

C14_CommentReferencesFixed == [][C14_Step]_vars

(***************************************************************************)
(* C15: the page of a post lists every stored comment, whichever post it   *)
(* targets; when the request also submits a comment, that comment is       *)
(* stored and the page lists the comments as they were before it.          *)
(***************************************************************************)
C15_Step ==
    \A c \in Clients, id \in PostIds, f \in CommentForms :
      /\ (/\ last'.op = "show_post"
          /\ show_post(c, "GET", id, FALSE, f))
           => /\ result'.comments = comments
              /\ comments' = comments
      /\ (/\ last'.op = "show_post"
          /\ ~Anonymous(c)
          /\ show_post(c, "POST", id, TRUE, f))
           => /\ result'.comments = comments
              /\ \E new \in comments' \ comments :
                   /\ new.text = f.comment
                   /\ new \notin result'.comments
                   /\ comments' = comments \cup {new}

C15_ListsAllComments == [][C15_Step]_vars

\* The page of post 2 lists a comment that targets another post.
C15_Witness ==
    /\ last.op = "show_post"
    /\ last.post_id \in Ids(posts)
    /\ result.status = 200
    /\ \E cm \in result.comments : cm.post_id # last.post_id /\ cm.post_id \in Ids(posts)

(***************************************************************************)
(* C16: a registration that succeeds leaves the client's session logged in *)
(* as the user just created, whoever it was logged in as before; a         *)
(* registration that fails leaves the session as it was.                   *)
(***************************************************************************)
C16_Step ==
    \A c \in Clients, f \in RegisterForms, s \in Salts :
      /\ (/\ last'.op = "register"
          /\ \A u \in users : u.email # f.email
          /\ register(c, "POST", TRUE, f, s))
           => /\ result' = Succeeded
              /\ \E new \in users' \ users :
                   /\ new.email = f.email
                   /\ current_user(c)' = new
                   /\ session'[c] = new.id
      /\ (/\ last'.op = "register"
          /\ \/ (\E u \in users : u.email = f.email) /\ register(c, "POST", TRUE, f, s)
             \/ register(c, "POST", FALSE, f, s))
           => /\ session' = session
              /\ result' # Succeeded

C16_RegisterLogsIn == [][C16_Step]_vars

\* A second user has just registered from the session that was the first user's.
C16_Witness ==
    /\ last.op = "register"
    /\ result = Succeeded
    /\ Cardinality(users) = 2
    /\ current_user(last.client).id = 2
    /\ \E p \in posts : p.author_id = 1

(***************************************************************************)
(* C17: a login that fails, for an unknown email or a wrong password,      *)
(* leaves the session as it was, anonymous or logged in; a login that      *)
(* succeeds binds the session to that user alone, whoever it was bound to. *)
(***************************************************************************)
C17_Step ==
    \A c \in Clients, f \in LoginForms :
      LET known == {u \in users : u.email = f.email}
          matching == {u \in known : u.password.hash = Digest(u.password.salt, f.password)}
      IN
      (/\ last'.op = "login"
       /\ login(c, "POST", TRUE, f))
        => /\ matching = {} => /\ session' = session
                               /\ result' # Succeeded
           /\ \A u \in matching : /\ session'[c] = u.id
                                  /\ current_user(c)' = u
                                  /\ result' = Succeeded

C17_LoginSession == [][C17_Step]_vars

\* A login with a wrong password has just failed in a session that is logged in.
C17_Witness ==
    /\ last.op = "login"
    /\ result = InvalidCredentialsError
    /\ ~Anonymous(last.client)
    /\ Cardinality(users) = 2

(***************************************************************************)
(* C18: no request removes a user or changes a stored user's id, email,    *)
(* name or credential; a new user gets an id no user has had; so the users *)
(* only grow and a session bound to a user id always finds its user.       *)
(***************************************************************************)
C18_Resolves ==
    /\ \A u1, u2 \in users : u1.id = u2.id => u1 = u2
    /\ \A c \in Clients :
         session[c] # None =>
           /\ session[c] \in Ids(users)
           /\ current_user(c) \in users
           /\ current_user(c).id = session[c]

C18_Step ==
    /\ users \subseteq users'
    /\ \A new \in users' \ users : new.id \notin Ids(users)

C18_UsersAppendOnly == []C18_Resolves /\ [][C18_Step]_vars

\* With two users stored, the first one, logged in again, has deleted a post.
C18_Witness ==
    /\ Cardinality(users) = 2
    /\ last.op = "delete_post"
    /\ result = Succeeded
    /\ session[last.client] = 1

=============================================================================
